---- MODULE Spec2Model ----
(***************************************************************************)
(* pytest_alembic.runner: the runner() context manager, MigrationContext   *)
(* and RevisionSuccess, driving a migration tool (CommandExecutor), an     *)
(* optional ConnectionExecutor and a parsed AlembicHistory.                *)
(*                                                                         *)
(* Strings are sequences of one-character strings, so that str.strip() and *)
(* the parsing of the tool's output are computed rather than assumed.      *)
(* Every operation of the context is one action; it threads a "run" record *)
(*   [db, calls, n, err, ret, cb_runs, file_written]                       *)
(* through the calls the method makes: db is the database the tool works   *)
(* on, calls the commands handed to the two executors (in order), n the    *)
(* number of state-changing commands issued so far, err the exception in   *)
(* flight ("ok" when none), ret the value returned.                        *)
(***************************************************************************)
EXTENDS Integers, Sequences, FiniteSets, TLC

\* Longest revision chain the tool is given.
MaxRevs == 2
\* Most rows the table may hold (inserts beyond it are not explored).
MaxRows == 2
\* Failures are injected into the first MaxFail state-changing commands of an operation.
MaxFail == 2

VARIABLES
    ctx,                    \* runner(): "new" (not entered), "entered" (yielded), "exited"
    config,                 \* the config mapping handed to runner()
    engine,                 \* the engine argument of runner(): TRUE when supplied
    command_executor,       \* MigrationContext.command_executor: [configured]
    revision_upgrade_data,  \* MigrationContext.revision_upgrade_data
    connection_executor,    \* MigrationContext.connection_executor
    released,               \* resources closed so far
    nrev,                   \* number of revisions of the tool's script directory
    head_marker,            \* the tool prints " (head)" after a head revision
    db,                     \* the database: [rev, rows]
    op,                     \* the last operation: its name, argument, calls and outcome
    rt                      \* progress of an up_to / down_to / up_to round trip

vars == <<ctx, config, engine, command_executor, revision_upgrade_data,
          connection_executor, released, nrev, head_marker, db, op, rt>>

-----------------------------------------------------------------------------
(* Strings and revision identifiers *)

Digit == <<"1", "2", "3", "4", "5", "6", "7", "8", "9">>
RevId(i) == <<"R", Digit[i]>>
BASE == <<"b", "a", "s", "e">>
\* Python's None
None == <<"<None>">>
\* the relative target "-1"
MinusOne == <<"-", "1">>
\* an identifier that is in no history
Unknown == <<"X">>

HeadSuffix == <<" ", "(", "h", "e", "a", "d", ")">>
Arrow == <<" ", "-", ">", " ">>
Whitespace == {" ", "\n", "\t"}

RECURSIVE lstrip(_)
lstrip(s) == IF s # <<>> /\ Head(s) \in Whitespace THEN lstrip(Tail(s)) ELSE s

RECURSIVE rstrip(_)
rstrip(s) ==
    IF s # <<>> /\ s[Len(s)] \in Whitespace THEN rstrip(SubSeq(s, 1, Len(s) - 1)) ELSE s

\* str.strip()
strip(s) == rstrip(lstrip(s))

-----------------------------------------------------------------------------
(* The migration tool behind CommandExecutor.run_command: a linear chain    *)
(* R1 <- R2 <- ... <- R(nrev), the database at position db.rev (0 = base).  *)

\* "current": nothing at base, else one line, the revision (marked when a head)
CurrentOutput(d) ==
    IF d.rev = 0 THEN <<>>
    ELSE << RevId(d.rev)
            \o (IF d.rev = nrev /\ head_marker THEN HeadSuffix ELSE <<>>)
            \o <<"\n">> >>

\* "history": one line "revision -> parent" per revision, newest first
HistoryOutput ==
    [k \in 1..nrev |->
        LET i == nrev - k + 1
        IN  RevId(i) \o Arrow \o (IF i = 1 THEN BASE ELSE RevId(i - 1)) \o <<"\n">>]

\* "heads": the newest revision, if there is one
HeadsOutput == IF nrev = 0 THEN <<>> ELSE << RevId(nrev) \o <<"\n">> >>

\* position of a revision identifier in the chain: 0 for base, -1 when unknown
RevIndex(id) ==
    IF id = BASE THEN 0
    ELSE IF \E i \in 1..nrev : RevId(i) = id
         THEN CHOOSE i \in 1..nrev : RevId(i) = id
         ELSE -1

\* "upgrade <target>": applies every revision after the current one up to target
ToolUpgrade(d, target) ==
    LET i == RevIndex(target)
    IN  IF i < 0 THEN [db |-> d, err |-> "CommandError"]
        ELSE IF i > d.rev THEN [db |-> [d EXCEPT !.rev = i], err |-> "ok"]
        ELSE [db |-> d, err |-> "ok"]

\* "downgrade <target>": undoes every revision after target; "-1" undoes one
ToolDowngrade(d, target) ==
    LET i == IF target = MinusOne THEN d.rev - 1 ELSE RevIndex(target)
    IN  IF i < 0 \/ i > d.rev THEN [db |-> d, err |-> "CommandError"]
        ELSE [db |-> [d EXCEPT !.rev = i], err |-> "ok"]

-----------------------------------------------------------------------------
(* AlembicHistory: a sequence of [revision, parent] records *)

\* index of the first occurrence of character c in s, 0 when there is none
RECURSIVE IndexOf(_, _, _)
IndexOf(s, c, from) ==
    IF from > Len(s) THEN 0
    ELSE IF s[from] = c THEN from
    ELSE IndexOf(s, c, from + 1)

ParseLine(line) ==
    LET i == IndexOf(line, " ", 1)
    IN  [revision |-> SubSeq(line, 1, i - 1),
         parent   |-> strip(SubSeq(line, i + Len(Arrow), Len(line)))]

\* AlembicHistory.parse
parse(raw_history) == [k \in 1..Len(raw_history) |-> ParseLine(raw_history[k])]

Revisions(h) == {h[k].revision : k \in 1..Len(h)}

\* validate_revision does not raise
IsValid(h, revision) == revision = BASE \/ revision \in Revisions(h)

\* AlembicHistory.validate_revision
validate_revision(h, revision) ==
    IF IsValid(h, revision) THEN "ok" ELSE "UnknownRevisionError"

\* AlembicHistory.previous_revision
previous_revision(h, revision) ==
    IF ~IsValid(h, revision) THEN [err |-> "UnknownRevisionError", val |-> None]
    ELSE IF revision = BASE THEN [err |-> "ok", val |-> None]
    ELSE [err |-> "ok",
          val |-> h[CHOOSE k \in 1..Len(h) : h[k].revision = revision].parent]

Children(h, revision) == {k \in 1..Len(h) : h[k].parent = revision}

\* AlembicHistory.next_revision
next_revision(h, revision) ==
    IF ~IsValid(h, revision) THEN [err |-> "UnknownRevisionError", val |-> None]
    ELSE IF Children(h, revision) = {} THEN [err |-> "ok", val |-> None]
    ELSE [err |-> "ok", val |-> h[CHOOSE k \in Children(h, revision) : TRUE].revision]

\* the path of ancestor links from base up to and including revision
RECURSIVE Lineage(_, _)
Lineage(h, revision) ==
    IF revision = BASE THEN <<>>
    ELSE Lineage(h, previous_revision(h, revision).val) \o <<revision>>

\* AlembicHistory.revision_range
revision_range(h, start, end) ==
    IF ~IsValid(h, start) \/ ~IsValid(h, end)
    THEN [err |-> "UnknownRevisionError", val |-> <<>>]
    ELSE LET path == Lineage(h, end)
             at   == IF start = BASE THEN 0
                     ELSE IF \E k \in 1..Len(path) : path[k] = start
                          THEN CHOOSE k \in 1..Len(path) : path[k] = start
                          ELSE Len(path)
         IN  [err |-> "ok", val |-> SubSeq(path, at + 1, Len(path))]

-----------------------------------------------------------------------------
(* The two executors, as the context calls them *)

\* the database before any migration: at base, the table empty
EmptyDb == [rev |-> 0, rows |-> <<>>]

\* a run starts with no exception in flight; fail is the state-changing command
\* (counted from 1) that the tool or the database rejects, 0 for none
NewRun(d, fail) ==
    [db |-> d, calls |-> <<>>, n |-> 0, fail |-> fail, err |-> "ok", ret |-> None,
     cb_runs |-> 0, file_written |-> FALSE]

Call(ex, cmd, arg, data) == [ex |-> ex, cmd |-> cmd, arg |-> arg, data |-> data]

NoData == [kind |-> "None", of |-> None]

\* CommandExecutor.run_command for "history", "heads" and "current"
run_query(r, cmd) ==
    [r EXCEPT !.calls = Append(@, Call("command", cmd, None, NoData)),
              !.ret = CASE cmd = "history" -> HistoryOutput
                        [] cmd = "heads"   -> HeadsOutput
                        [] OTHER           -> CurrentOutput(r.db)]

\* CommandExecutor.run_command for "upgrade" and "downgrade"
run_command(r, cmd, arg) ==
    LET r1 == [r EXCEPT !.calls = Append(@, Call("command", cmd, arg, NoData)),
                        !.n = @ + 1, !.ret = None]
        t  == IF cmd = "upgrade" THEN ToolUpgrade(r.db, arg) ELSE ToolDowngrade(r.db, arg)
    IN  IF r1.n = r.fail THEN [r1 EXCEPT !.err = "CommandError"]
        ELSE [r1 EXCEPT !.db = t.db, !.err = t.err]

\* ConnectionExecutor.table_insert / ConnectionExecutor.__call__: one insert,
\* tagged with the revision
table_insert(r, revision, data) ==
    LET r1 == [r EXCEPT !.calls = Append(@, Call("connection", "insert", revision, data)),
                        !.n = @ + 1, !.ret = None]
    IN  IF r1.n = r.fail THEN [r1 EXCEPT !.err = "DatabaseError"]
        ELSE [r1 EXCEPT !.db.rows = Append(@, [revision |-> revision, data |-> data])]

-----------------------------------------------------------------------------
(* MigrationContext *)

\* dict.get(key): None when the key is absent
Get(d, key) == IF key \in DOMAIN d THEN d[key] ELSE NoData

\* truth value of a seed payload: None, {} and [] are false
Truthy(data) == data.kind = "rows"

\* the history property
history(r) ==
    LET r1 == run_query(r, "history")
    IN  [run |-> r1, val |-> parse(r1.ret)]

\* the heads property
heads(r) ==
    LET r1 == run_query(r, "heads")
    IN  [run |-> r1, val |-> r1.ret]

\* the current property
current(r) ==
    LET r1 == run_query(r, "current")
    IN  [run |-> r1, val |-> IF r1.ret # <<>> THEN strip(r1.ret[1]) ELSE BASE]

raw_command(r, cmd, arg) == run_command(r, cmd, arg)

\* a variant that seeds after the upgrade
managed_upgrade_step_seed_after(r, nxt) ==
    LET upgrade_data == Get(revision_upgrade_data, nxt)
        r1 == raw_command(r, "upgrade", nxt)
    IN  IF r1.err # "ok" \/ ~Truthy(upgrade_data) THEN r1
        ELSE IF connection_executor = "None" THEN [r1 EXCEPT !.err = "AttributeError"]
        ELSE table_insert(r1, nxt, upgrade_data)

\* a variant that never seeds
managed_upgrade_step_no_seed(r, nxt) == raw_command(r, "upgrade", nxt)

\* a variant that issues a failed "upgrade" a second time
managed_upgrade_step_retry(r, nxt) ==
    LET upgrade_data == Get(revision_upgrade_data, nxt)
        r1 == IF ~Truthy(upgrade_data) THEN r
              ELSE IF connection_executor = "None" THEN [r EXCEPT !.err = "AttributeError"]
              ELSE table_insert(r, nxt, upgrade_data)
        r2 == raw_command(r1, "upgrade", nxt)
    IN  IF r1.err # "ok" THEN r1
        ELSE IF r2.err # "ok" THEN raw_command([r2 EXCEPT !.err = "ok"], "upgrade", nxt)
        ELSE r2

\* the body of the loop of managed_upgrade, for one revision of the range
\* a variant that skips the seed data when there is no connection executor
managed_upgrade_step_skip_unconnected(r, nxt) ==
    LET upgrade_data == Get(revision_upgrade_data, nxt)
        r1 == IF ~Truthy(upgrade_data) \/ connection_executor = "None" THEN r
              ELSE table_insert(r, nxt, upgrade_data)
    IN  IF r1.err # "ok" THEN r1 ELSE raw_command(r1, "upgrade", nxt)

managed_upgrade_step(r, nxt) ==
    LET upgrade_data == Get(revision_upgrade_data, nxt)
        r1 == IF ~Truthy(upgrade_data) THEN r
              ELSE IF connection_executor = "None" THEN [r EXCEPT !.err = "AttributeError"]
              ELSE table_insert(r, nxt, upgrade_data)
    IN  IF r1.err # "ok" THEN r1 ELSE raw_command(r1, "upgrade", nxt)

\* a variant that returns after the first revision of the range
managed_upgrade_loop_once(r, range) ==
    IF range = <<>> \/ r.err # "ok" THEN r ELSE managed_upgrade_step(r, Head(range))

RECURSIVE managed_upgrade_loop(_, _)
managed_upgrade_loop(r, range) ==
    IF range = <<>> \/ r.err # "ok" THEN r
    ELSE managed_upgrade_loop(managed_upgrade_step(r, Head(range)), Tail(range))

\* a variant that walks the range from base instead of from current
managed_upgrade_from_base(r, dest_revision) ==
    LET c  == current(r)
        h  == history(c.run)
        rg == revision_range(h.val, BASE, dest_revision)
    IN  IF rg.err # "ok" THEN [h.run EXCEPT !.err = rg.err]
        ELSE [managed_upgrade_loop(h.run, rg.val) EXCEPT !.ret = None]

managed_upgrade(r, dest_revision) ==
    LET c  == current(r)
        h  == history(c.run)
        rg == revision_range(h.val, c.val, dest_revision)
    IN  IF rg.err # "ok" THEN [h.run EXCEPT !.err = rg.err]
        ELSE [managed_upgrade_loop(h.run, rg.val) EXCEPT !.ret = None]

\* a variant that upgrades to the revision itself
migrate_up_before_inclusive(r, revision) ==
    LET h == history(r)
        p == previous_revision(h.val, revision)
    IN  IF p.err # "ok" THEN [h.run EXCEPT !.err = p.err]
        ELSE managed_upgrade(h.run, revision)

migrate_up_before(r, revision) ==
    LET h == history(r)
        p == previous_revision(h.val, revision)
    IN  IF p.err # "ok" THEN [h.run EXCEPT !.err = p.err]
        ELSE managed_upgrade(h.run, p.val)

migrate_up_to(r, revision) == managed_upgrade(r, revision)

\* a variant that upgrades to the newest head instead of the next revision
migrate_up_one_to_head(r) ==
    LET h  == history(r)
        c  == current(h.run)
        hd == heads(c.run)
    IN  IF hd.val = <<>> THEN [hd.run EXCEPT !.err = "UnknownRevisionError"]
        ELSE managed_upgrade(hd.run, strip(hd.val[1]))

\* a variant that upgrades to the current revision when there is no next one
migrate_up_one_reissue(r) ==
    LET h == history(r)
        c == current(h.run)
        x == next_revision(h.val, c.val)
    IN  IF x.err # "ok" \/ x.val = None THEN raw_command(c.run, "upgrade", c.val)
        ELSE managed_upgrade(c.run, x.val)

migrate_up_one(r) ==
    LET h == history(r)
        c == current(h.run)
        x == next_revision(h.val, c.val)
    IN  IF x.err # "ok" THEN [c.run EXCEPT !.err = x.err]
        ELSE managed_upgrade(c.run, x.val)

\* self.get_hash_before: MigrationContext has no such attribute
get_hash_before(r, revision) == [run |-> [r EXCEPT !.err = "AttributeError"], val |-> None]

migrate_down_before(r, revision) ==
    LET h == history(r)
        x == next_revision(h.val, revision)
        g == get_hash_before(h.run, x.val)
    IN  IF x.err # "ok" THEN [h.run EXCEPT !.err = x.err]
        ELSE IF g.run.err # "ok" THEN g.run
        ELSE raw_command(g.run, "downgrade", g.val)

\* a variant that seeds the revision it lands on, as managed_upgrade does
migrate_down_to_seeding(r, revision) ==
    LET h == history(r)
        v == validate_revision(h.val, revision)
        upgrade_data == Get(revision_upgrade_data, revision)
        r1 == IF ~Truthy(upgrade_data) \/ connection_executor = "None" THEN h.run
              ELSE table_insert(h.run, revision, upgrade_data)
    IN  IF v # "ok" THEN [h.run EXCEPT !.err = v]
        ELSE IF r1.err # "ok" THEN r1
        ELSE raw_command(r1, "downgrade", revision)

\* a variant that does not validate the revision
migrate_down_to_unchecked(r, revision) ==
    raw_command(history(r).run, "downgrade", revision)

migrate_down_to(r, revision) ==
    LET h == history(r)
        v == validate_revision(h.val, revision)
    IN  IF v # "ok" THEN [h.run EXCEPT !.err = v]
        ELSE raw_command(h.run, "downgrade", revision)

migrate_down_one(r) == raw_command(r, "downgrade", MinusOne)

\* a variant that ends after the downgrade
roundtrip_next_revision_no_reupgrade(r) ==
    LET r1 == migrate_up_one(r)
    IN  IF r1.err # "ok" THEN r1 ELSE migrate_down_one(r1)

roundtrip_next_revision(r) ==
    LET r1 == migrate_up_one(r)
        r2 == IF r1.err # "ok" THEN r1 ELSE migrate_down_one(r1)
    IN  IF r2.err # "ok" THEN r2 ELSE migrate_up_one(r2)

insert_into(r, data) ==
    LET c == current(r)
    IN  IF connection_executor = "None" THEN [c.run EXCEPT !.err = "TypeError"]
        ELSE table_insert(c.run, c.val, data)

-----------------------------------------------------------------------------
(* RevisionSuccess and generate_revision *)

\* a variant that raises the sentinel before it calls fn
process_revision_directives_raise_first(r, fn) ==
    [r EXCEPT !.calls = Append(@, Call("hook", "raise", None, NoData)),
              !.err = "RevisionSuccess"]

\* the wrapper RevisionSuccess.process_revision_directives(fn) returns, as the
\* tool calls it: fn is "None", or a callback that "returns" or "raises"
\* (its call of fn and its raise are entered in the call log)
process_revision_directives(r, fn) ==
    LET r1 == IF fn = "None" THEN r
              ELSE [r EXCEPT !.calls = Append(@, Call("hook", "callback", None, NoData)),
                             !.cb_runs = @ + 1,
                             !.err = IF fn = "raises" THEN "CallbackError" ELSE "ok"]
    IN  IF r1.err # "ok" THEN r1
        ELSE [r1 EXCEPT !.calls = Append(@, Call("hook", "raise", None, NoData)),
                        !.err = "RevisionSuccess"]

\* CommandExecutor.run_command("revision", process_revision_directives=hook):
\* the tool "fails" before the hook, calls the "hook", or finishes with "no_hook";
\* a command that is not stopped writes the revision file and returns its output
run_revision(r, fn, tool) ==
    LET r1 == [r EXCEPT !.calls = Append(@, Call("command", "revision", None, NoData))]
        r2 == IF tool = "hook" THEN process_revision_directives(r1, fn) ELSE r1
    IN  IF tool = "fails" THEN [r1 EXCEPT !.err = "CommandError"]
        ELSE IF r2.err # "ok" THEN r2
        ELSE [r2 EXCEPT !.file_written = TRUE, !.ret = <<"Generating revision">>]

\* a bare except
CaughtAny(err) == TRUE

\* the except clause of generate_revision catches this exception
Caught(err) == err = "RevisionSuccess"

generate_revision(r, fn, tool) ==
    LET r1 == run_revision(r, fn, tool)
    IN  IF r1.err # "ok" /\ Caught(r1.err) THEN [r1 EXCEPT !.err = "ok", !.ret = None]
        ELSE r1

-----------------------------------------------------------------------------
(* The state machine *)

\* the revisions a caller may name: base, those of the chain, and a stranger
Targets == {BASE, Unknown} \cup {RevId(i) : i \in 1..nrev}
\* the state-changing command to reject: none (0), or one of the first MaxFail
Fails == 0..MaxFail

Payload(key) == [kind |-> "rows", of |-> key]
EmptyPayload(key) == [kind |-> "empty", of |-> key]

\* the seed maps a config may carry: any revisions of the chain, each with rows or
\* with an empty payload
SeedMaps(n) ==
    UNION {
        { [k \in {RevId(i) : i \in S} |-> IF k \in E THEN EmptyPayload(k) ELSE Payload(k)]
            : E \in SUBSET {RevId(i) : i \in S} }
        : S \in SUBSET (1..n) }

\* config.get(key, default)
ConfigGet(cfg, key, default) == IF key \in cfg.keys THEN cfg.revision_upgrade_data ELSE default

Init ==
    /\ ctx = "new"
    /\ nrev \in 0..MaxRevs
    /\ head_marker \in BOOLEAN
    /\ engine \in BOOLEAN
    /\ \/ config = [keys |-> {}, revision_upgrade_data |-> << >>]
       \/ config \in {[keys |-> {"revision_upgrade_data"}, revision_upgrade_data |-> m]
                        : m \in SeedMaps(nrev)}
    /\ command_executor = [created |-> FALSE, configured |-> FALSE]
    /\ revision_upgrade_data = << >>
    /\ connection_executor = "None"
    /\ released = {}
    /\ db = EmptyDb
    /\ op = [name |-> "none", arg |-> None, err |-> "ok", calls |-> <<>>, ret |-> None,
             pre |-> EmptyDb, cb_runs |-> 0, file_written |-> FALSE]
    /\ rt = [phase |-> 0, rev |-> None, start |-> 0, snap |-> EmptyDb]

\* a variant that builds a ConnectionExecutor whether or not an engine is given
RunnerEnterAlwaysConnected ==
    /\ ctx = "new"
    /\ ctx' = "entered"
    /\ command_executor' = [created |-> TRUE, configured |-> engine]
    /\ revision_upgrade_data' = ConfigGet(config, "revision_upgrade_data", << >>)
    /\ connection_executor' = "ConnectionExecutor"
    /\ UNCHANGED <<config, engine, released, nrev, head_marker, db, op, rt>>

\* runner(config, engine) up to its yield
RunnerEnter ==
    /\ ctx = "new"
    /\ ctx' = "entered"
    /\ command_executor' = [created |-> TRUE, configured |-> engine]
    /\ revision_upgrade_data' = ConfigGet(config, "revision_upgrade_data", << >>)
    /\ connection_executor' = IF engine THEN "ConnectionExecutor" ELSE "None"
    /\ UNCHANGED <<config, engine, released, nrev, head_marker, db, op, rt>>

\* leaving the with block: the generator resumes after its yield, where there is
\* no statement and no finally clause
RunnerExit ==
    /\ ctx = "entered"
    /\ ctx' = "exited"
    /\ released' = released
    /\ UNCHANGED <<config, engine, command_executor, revision_upgrade_data,
                   connection_executor, nrev, head_marker, db, op, rt>>

\* the round trip migrate_up_to(R), migrate_down_to(previous of R), migrate_up_to(R):
\* phase counts its operations done so far, snap is the database after the first
NextRt(name, arg, r) ==
    IF name = "migrate_up_to" /\ r.err = "ok" /\ RevIndex(arg) >= 1
    THEN IF rt.phase = 2 /\ rt.rev = arg
         THEN [rt EXCEPT !.phase = 3]
         ELSE [phase |-> 1, rev |-> arg, start |-> db.rev, snap |-> r.db]
    ELSE IF name = "migrate_down_to" /\ r.err = "ok" /\ rt.phase = 1
            /\ RevIndex(arg) = RevIndex(rt.rev) - 1
    THEN [rt EXCEPT !.phase = 2]
    ELSE [phase |-> 0, rev |-> None, start |-> 0, snap |-> EmptyDb]

\* an operation of the context ran to its end (returned or raised)
Finish(name, arg, run) ==
    \E r \in {run} :
        /\ ctx = "entered"
        /\ Len(r.db.rows) <= MaxRows
        /\ db' = r.db
        /\ op' = [name |-> name, arg |-> arg, err |-> r.err, calls |-> r.calls,
                  ret |-> r.ret, pre |-> db, cb_runs |-> r.cb_runs,
                  file_written |-> r.file_written]
        /\ rt' = NextRt(name, arg, r)
        /\ UNCHANGED <<ctx, config, engine, command_executor, revision_upgrade_data,
                       connection_executor, released, nrev, head_marker>>

GenerateRevision ==
    \E fn \in {"None", "returns", "raises"}, tool \in {"fails", "hook", "no_hook"} :
        Finish("generate_revision", <<fn, tool>>, generate_revision(NewRun(db, 0), fn, tool))

Current ==
    LET c == current(NewRun(db, 0))
    IN  Finish("current", None, [c.run EXCEPT !.ret = c.val])

History ==
    LET h == history(NewRun(db, 0))
    IN  Finish("history", None, [h.run EXCEPT !.ret = h.val])

Heads ==
    LET h == heads(NewRun(db, 0))
    IN  Finish("heads", None, [h.run EXCEPT !.ret = h.val])

MigrateUpBefore ==
    \E t \in Targets :
        Finish("migrate_up_before", t, migrate_up_before(NewRun(db, 0), t))

MigrateUpTo ==
    \E t \in Targets, fail \in Fails :
        Finish("migrate_up_to", t, migrate_up_to(NewRun(db, fail), t))

MigrateUpOne ==
    \E fail \in Fails :
        Finish("migrate_up_one", None, migrate_up_one(NewRun(db, fail)))

MigrateDownBefore ==
    \E t \in Targets :
        Finish("migrate_down_before", t, migrate_down_before(NewRun(db, 0), t))

MigrateDownTo ==
    \E t \in Targets :
        Finish("migrate_down_to", t, migrate_down_to(NewRun(db, 0), t))

MigrateDownOne ==
    Finish("migrate_down_one", None, migrate_down_one(NewRun(db, 0)))

RoundtripNextRevision ==
    \E fail \in Fails :
        Finish("roundtrip_next_revision", None, roundtrip_next_revision(NewRun(db, fail)))

\* the rows a caller hands to insert_into
UserRows == [kind |-> "rows", of |-> None]

InsertInto ==
    Finish("insert_into", None, insert_into(NewRun(db, 0), UserRows))

\* the operations on a context that stays entered
Next ==
    \/ RunnerEnter
    \/ Current
    \/ History
    \/ Heads
    \/ MigrateUpBefore
    \/ MigrateUpTo
    \/ MigrateUpOne
    \/ MigrateDownBefore
    \/ MigrateDownTo
    \/ MigrateDownOne
    \/ RoundtripNextRevision

Spec == Init /\ [][Next]_vars

\* revision generation, between single migration steps
NextRevision ==
    \/ RunnerEnter
    \/ GenerateRevision
    \/ MigrateUpOne
    \/ MigrateDownOne

SpecRevision == Init /\ [][NextRevision]_vars

\* direct inserts, between migrations
NextInsert ==
    \/ RunnerEnter
    \/ InsertInto
    \/ MigrateUpTo
    \/ MigrateUpOne
    \/ MigrateDownTo
    \/ MigrateDownOne

SpecInsert == Init /\ [][NextInsert]_vars

\* the life of the context: entered, used, left
NextScoped ==
    \/ RunnerEnter
    \/ RunnerExit
    \/ MigrateUpOne
    \/ MigrateDownOne

SpecScoped == Init /\ [][NextScoped]_vars

-----------------------------------------------------------------------------
(* Properties *)

\* the calls of the last operation that name the command cmd
Cmds(cmd) == SelectSeq(op.calls, LAMBDA c : c.cmd = cmd)
Targeted(cmd) == [k \in 1..Len(Cmds(cmd)) |-> Cmds(cmd)[k].arg]

\* the last operation went through managed_upgrade
Managed == op.name \in {"migrate_up_to", "migrate_up_one", "migrate_up_before"}

\* a revision of the chain with a true seed payload registered
Seeded(id) == id \in DOMAIN revision_upgrade_data /\ revision_upgrade_data[id].kind = "rows"

\* C1: in managed_upgrade the insert of the seed data registered for a revision R
\* of the range comes immediately before the "upgrade" to R, so after every
\* earlier "upgrade" of the range, and carries the payload registered under R,
\* the revision the step lands on; an "upgrade" to a seeded R always has it.
C1_SeedBeforeUpgrade ==
    Managed =>
        \A j \in 1..Len(op.calls) :
            LET c == op.calls[j]
            IN  /\ (c.cmd = "upgrade" /\ Seeded(c.arg)) =>
                        /\ j > 1
                        /\ op.calls[j - 1].cmd = "insert"
                        /\ op.calls[j - 1].arg = c.arg
                /\ c.cmd = "insert" =>
                        /\ c.data = revision_upgrade_data[c.arg]
                        /\ \A i \in 1..(j - 1) :
                               op.calls[i].cmd = "upgrade" =>
                                   RevIndex(op.calls[i].arg) < RevIndex(c.arg)
                        /\ j < Len(op.calls) =>
                               /\ op.calls[j + 1].cmd = "upgrade"
                               /\ op.calls[j + 1].arg = c.arg
                        /\ j = Len(op.calls) => op.err = "DatabaseError"

\* two seeded revisions were walked: insert R1, upgrade R1, insert R2, upgrade R2
C1_Witness ==
    /\ op.name = "migrate_up_to"
    /\ op.err = "ok"
    /\ Len(Cmds("insert")) = 2
    /\ Len(Cmds("upgrade")) = 2

\* C2: from base, migrate_up_to(R) issues "upgrade" to each element of
\* revision_range("base", R) in turn, lands on R, and leaves the database as one
\* "upgrade" straight to R does (the same revision; the same rows too when the
\* walk seeded nothing).
C2_StepwiseEqualsDirect ==
    (op.name = "migrate_up_to" /\ op.err = "ok" /\ op.pre.rev = 0 /\ RevIndex(op.arg) >= 1) =>
        LET direct == ToolUpgrade(op.pre, op.arg).db
        IN  /\ Targeted("upgrade") = [k \in 1..RevIndex(op.arg) |-> RevId(k)]
            /\ db.rev = RevIndex(op.arg)
            /\ db.rev = direct.rev
            /\ Cmds("insert") = <<>> => db = direct

\* a walk of two steps from base
C2_Witness ==
    /\ op.name = "migrate_up_to"
    /\ op.err = "ok"
    /\ op.pre.rev = 0
    /\ db.rev = 2
    /\ Len(Cmds("upgrade")) = 2

\* the resources runner() binds: the command environment, and the connection
\* when an engine is supplied
Acquired == {"command_executor"} \cup (IF engine THEN {"connection"} ELSE {})

\* C3: once the runner context is exited, normally or after an operation raised,
\* the command environment and the connection (if any) have been released.
C3_ReleasedOnExit == ctx = "exited" => released = Acquired

\* C4: migrate_down_before(R), for R with a successor in the history, completes
\* without raising and issues exactly one "downgrade", to the revision computed
\* from next_revision(R), and no "upgrade".
C4_DownBeforeOneDowngrade ==
    (op.name = "migrate_down_before" /\ RevIndex(op.arg) >= 0 /\ RevIndex(op.arg) < nrev) =>
        /\ op.err = "ok"
        /\ Len(Cmds("downgrade")) = 1
        /\ Cmds("upgrade") = <<>>

\* C5: generate_revision returns None when the "revision" command ends with the
\* RevisionSuccess sentinel, never lets RevisionSuccess reach its caller, and
\* passes on unchanged the error of a failing command or of a raising callback.
C5_OnlySentinelCaught ==
    op.name = "generate_revision" =>
        LET fn == op.arg[1]
            tool == op.arg[2]
        IN  /\ op.err # "RevisionSuccess"
            /\ (tool = "hook" /\ fn # "raises") => (op.err = "ok" /\ op.ret = None)
            /\ (tool = "hook" /\ fn = "raises") => op.err = "CallbackError"
            /\ tool = "fails" => op.err = "CommandError"

\* the hook ran a callback that returned, and generate_revision returned None
C5_Witness ==
    /\ op.name = "generate_revision"
    /\ op.arg = <<"returns", "hook">>
    /\ op.cb_runs = 1
    /\ op.err = "ok"
    /\ op.ret = None

\* C6: current returns "base" when the "current" command prints nothing, and
\* otherwise the revision identifier of the first line ("R1" for "R1 (head)\n").
C6_CurrentIsRevisionId ==
    op.name = "current" =>
        op.ret = (IF CurrentOutput(op.pre) = <<>> THEN BASE ELSE RevId(op.pre.rev))

\* C7 as stated: after migrate_up_to(R), migrate_down_to(previous of R),
\* migrate_up_to(R) the revision and the rows are those a single
\* migrate_up_to(R) left.
C7_RoundtripSameState == rt.phase = 3 => db = rt.snap

\* C7 amended: when the round trip starts at or before R, it ends on the revision
\* a single migrate_up_to(R) leaves, with the rows a single migrate_up_to(R)
\* leaves followed by one more copy of the seed row registered for R, if any.
C7_RoundtripReseeds ==
    (rt.phase = 3 /\ rt.start <= RevIndex(rt.rev)) =>
        /\ db.rev = rt.snap.rev
        /\ db.rev = RevIndex(rt.rev)
        /\ db.rows = rt.snap.rows
                     \o (IF Seeded(rt.rev)
                         THEN <<[revision |-> rt.rev, data |-> revision_upgrade_data[rt.rev]]>>
                         ELSE <<>>)

\* a round trip over a seeded revision, done: its seed row is in the table twice
C7_Witness ==
    /\ rt.phase = 3
    /\ rt.start < RevIndex(rt.rev)
    /\ Seeded(rt.rev)
    /\ Len(db.rows) = 2
    /\ db.rows[1] = db.rows[2]

\* C8: migrate_down_to(revision) issues exactly one "downgrade", to that
\* revision, when the revision is "base" or in the history; otherwise it fails
\* with UnknownRevisionError, issues no "downgrade" and leaves the database as
\* it was.
C8_DownToValidates ==
    op.name = "migrate_down_to" =>
        /\ Cmds("upgrade") = <<>>
        /\ Cmds("insert") = <<>>
        /\ RevIndex(op.arg) >= 0 => Targeted("downgrade") = <<op.arg>>
        /\ RevIndex(op.arg) < 0 =>
                /\ op.err = "UnknownRevisionError"
                /\ Cmds("downgrade") = <<>>
                /\ db = op.pre

\* an unknown revision was refused with the database past base
C8_Witness ==
    /\ op.name = "migrate_down_to"
    /\ op.arg = Unknown
    /\ op.err = "UnknownRevisionError"
    /\ db.rev > 0

\* C9: migrate_up_one(), called below the newest head, issues at most one
\* "upgrade", always to the immediate successor of the revision it starts from;
\* when it completes it has issued exactly one and the database is on that
\* successor (the root revision when it started from base).
C9_UpOneNext ==
    (op.name = "migrate_up_one" /\ op.pre.rev < nrev) =>
        /\ Len(Cmds("upgrade")) <= 1
        /\ \A k \in 1..Len(Cmds("upgrade")) : Cmds("upgrade")[k].arg = RevId(op.pre.rev + 1)
        /\ op.err = "ok" =>
                /\ Len(Cmds("upgrade")) = 1
                /\ db.rev = op.pre.rev + 1

\* one step from base, in a chain of two: the database is on the root, not the head
C9_Witness ==
    /\ op.name = "migrate_up_one"
    /\ op.err = "ok"
    /\ op.pre.rev = 0
    /\ nrev = 2
    /\ db.rev = 1

\* C10: migrate_up_one(), called on the newest head, issues no "upgrade" and no
\* insert and leaves the database where it was, whether it fails or returns.
C10_UpOneAtHead ==
    (op.name = "migrate_up_one" /\ op.pre.rev = nrev) =>
        /\ Cmds("upgrade") = <<>>
        /\ Cmds("insert") = <<>>
        /\ db = op.pre

\* migrate_up_one was called on the head of a chain and failed
C10_Witness ==
    /\ op.name = "migrate_up_one"
    /\ nrev >= 1
    /\ op.pre.rev = nrev
    /\ op.err = "UnknownRevisionError"

\* the events of the hook in the call log of the last operation
HookEvents == SelectSeq(op.calls, LAMBDA c : c.ex = "hook")

\* C11: when the "revision" command calls the injected hook, a caller-supplied
\* callback runs exactly once, before the sentinel is raised; the sentinel is
\* raised whenever the callback returns (and when there is none), so the
\* command never reaches its file-writing phase.
C11_CallbackThenSentinel ==
    (op.name = "generate_revision" /\ op.arg[2] = "hook") =>
        LET fn == op.arg[1]
            ev == [k \in 1..Len(HookEvents) |-> HookEvents[k].cmd]
        IN  /\ fn = "None" => (ev = <<"raise">> /\ op.cb_runs = 0)
            /\ fn = "returns" => (ev = <<"callback", "raise">> /\ op.cb_runs = 1)
            /\ fn = "raises" => (ev = <<"callback">> /\ op.cb_runs = 1)
            /\ ~op.file_written

\* the hook ran a callback that returned, then raised; no file was written
C11_Witness ==
    /\ op.name = "generate_revision"
    /\ op.arg = <<"returns", "hook">>
    /\ Len(HookEvents) = 2
    /\ HookEvents[1].cmd = "callback"
    /\ HookEvents[2].cmd = "raise"
    /\ ~op.file_written

\* the revisions after position a up to position b, oldest first
Between(a, b) == [k \in 1..(b - a) |-> RevId(a + k)]

\* s is an initial part of t
IsPrefix(s, t) == Len(s) <= Len(t) /\ s = SubSeq(t, 1, Len(s))

\* C12: migrate_up_before(revision), started at or before the predecessor of
\* revision, never issues an "upgrade" to revision or to a later revision; when
\* it completes it has upgraded step by step to the predecessor, and the database
\* is on it (on base when revision is the root).
C12_UpBeforeStopsAtPredecessor ==
    (op.name = "migrate_up_before" /\ RevIndex(op.arg) >= 1
        /\ op.pre.rev <= RevIndex(op.arg) - 1) =>
        /\ \A k \in 1..Len(Cmds("upgrade")) :
               /\ RevIndex(Cmds("upgrade")[k].arg) >= 0
               /\ RevIndex(Cmds("upgrade")[k].arg) < RevIndex(op.arg)
        /\ op.err = "ok" =>
               /\ Targeted("upgrade") = Between(op.pre.rev, RevIndex(op.arg) - 1)
               /\ db.rev = RevIndex(op.arg) - 1

\* from base, migrate_up_before(R2) upgraded to R1 and stopped there
C12_Witness ==
    /\ op.name = "migrate_up_before"
    /\ op.arg = RevId(2)
    /\ op.err = "ok"
    /\ op.pre.rev = 0
    /\ Targeted("upgrade") = <<RevId(1)>>
    /\ db.rev = 1

\* the "upgrade" and "downgrade" commands of the last operation, in order
Migrations == SelectSeq(op.calls, LAMBDA c : c.cmd \in {"upgrade", "downgrade"})
MigrationSteps == [k \in 1..Len(Migrations) |-> <<Migrations[k].cmd, Migrations[k].arg>>]

\* C13: roundtrip_next_revision(), started below the newest head, issues its
\* migration commands in the order upgrade to the successor of the starting
\* revision, downgrade by one, upgrade to that successor again (a run that
\* raises stops inside this order); when it completes it has issued all three
\* and the database is on the successor.
C13_RoundtripOrder ==
    (op.name = "roundtrip_next_revision" /\ op.pre.rev < nrev) =>
        LET nxt == RevId(op.pre.rev + 1)
            all == << <<"upgrade", nxt>>, <<"downgrade", MinusOne>>, <<"upgrade", nxt>> >>
        IN  /\ IsPrefix(MigrationSteps, all)
            /\ op.err = "ok" =>
                   /\ MigrationSteps = all
                   /\ db.rev = op.pre.rev + 1

\* a complete round trip of the first revision of a chain of two
C13_Witness ==
    /\ op.name = "roundtrip_next_revision"
    /\ op.err = "ok"
    /\ nrev = 2
    /\ op.pre.rev = 0
    /\ Len(Migrations) = 3
    /\ db.rev = 1

\* C14: migrate_down_before, migrate_down_to and migrate_down_one never call
\* the Connection Executor and leave the rows of the table as they were,
\* whatever seed data is registered; migrate_down_one issues the single command
\* "downgrade -1" and no "history" or "current" command.
C14_DowngradesNeverSeed ==
    /\ op.name \in {"migrate_down_before", "migrate_down_to", "migrate_down_one"} =>
           /\ \A k \in 1..Len(op.calls) : op.calls[k].ex # "connection"
           /\ db.rows = op.pre.rows
    /\ op.name = "migrate_down_one" =>
           op.calls = <<Call("command", "downgrade", MinusOne, NoData)>>

\* with a connection executor, migrate_down_to landed on a seeded revision
\* from a later one
C14_Witness ==
    /\ op.name = "migrate_down_to"
    /\ op.err = "ok"
    /\ connection_executor # "None"
    /\ Seeded(op.arg)
    /\ db.rev = RevIndex(op.arg)
    /\ op.pre.rev > db.rev

\* the inserts and "upgrade" commands of the last operation, in order
Changes == SelectSeq(op.calls, LAMBDA c : c.cmd \in {"insert", "upgrade"})

\* C15: in managed_upgrade no command is issued twice, and a command that
\* failed (an "upgrade" whose revision the database did not reach, an insert
\* whose row is not in the table) is the last one issued, its error the error
\* the caller gets: nothing is retried and nothing follows a failure.
C15_NoRetryNoRecovery ==
    Managed =>
        /\ \A i, j \in 1..Len(Changes) : i < j => Changes[i] # Changes[j]
        /\ \A j \in 1..Len(Changes) :
               (Changes[j].cmd = "upgrade" /\ RevIndex(Changes[j].arg) > db.rev) =>
                   (j = Len(Changes) /\ op.err = "CommandError")
        /\ Len(Cmds("insert")) > Len(db.rows) - Len(op.pre.rows) =>
               /\ Changes[Len(Changes)].cmd = "insert"
               /\ op.err = "DatabaseError"
               /\ Len(Cmds("insert")) = Len(db.rows) - Len(op.pre.rows) + 1
        /\ op.err = "CommandError" =>
               /\ Changes # <<>>
               /\ Changes[Len(Changes)].cmd = "upgrade"
               /\ RevIndex(Changes[Len(Changes)].arg) > db.rev

\* the first "upgrade" of a walk of two revisions failed: nothing came after it
C15_Witness ==
    /\ op.name = "migrate_up_to"
    /\ op.arg = RevId(2)
    /\ op.pre.rev = 0
    /\ op.err = "CommandError"
    /\ Targeted("upgrade") = <<RevId(1)>>
    /\ db.rev = 0

\* the identifier of the revision at position i of the chain
IdAt(i) == IF i = 0 THEN BASE ELSE RevId(i)

\* C16: every access to history, heads and current issues one fresh command,
\* and the value current returns is the revision the tool is at when it is
\* read, whatever upgrades and downgrades came before.
C16_QueriesReadTheTool ==
    /\ op.name = "history" =>
           /\ op.calls = <<Call("command", "history", None, NoData)>>
           /\ Len(op.ret) = nrev
    /\ op.name = "heads" =>
           /\ op.calls = <<Call("command", "heads", None, NoData)>>
           /\ op.ret = HeadsOutput
    /\ op.name = "current" =>
           /\ op.calls = <<Call("command", "current", None, NoData)>>
           /\ op.ret = IdAt(db.rev)

\* C17: with a connection executor, insert_into hands it one insert, tagged
\* with the revision the migrations before it left the tool at.
C17_InsertTaggedWithPosition ==
    (op.name = "insert_into" /\ connection_executor # "None" /\ op.err = "ok") =>
        /\ Len(Cmds("insert")) = 1
        /\ Cmds("insert")[1].arg = IdAt(db.rev)
        /\ db.rows = Append(op.pre.rows, [revision |-> IdAt(db.rev), data |-> UserRows])

\* C18: from the moment the context is yielded, the Connection Executor is
\* present exactly when an engine was supplied, the Command Executor is
\* configured with the connection exactly in that case, and the seed-data map
\* is the one the config carried (empty when it carried none): no operation
\* changes either field afterwards.
C18_CapabilityFixedAtEntry ==
    ctx # "new" =>
        /\ command_executor.created
        /\ command_executor.configured <=> engine
        /\ (connection_executor = "ConnectionExecutor") <=> engine
        /\ (connection_executor = "None") <=> ~engine
        /\ "revision_upgrade_data" \in config.keys =>
               revision_upgrade_data = config.revision_upgrade_data
        /\ "revision_upgrade_data" \notin config.keys =>
               DOMAIN revision_upgrade_data = {}

\* a context without an engine, after a migration that completed
C18_Witness ==
    /\ ctx = "entered"
    /\ ~engine
    /\ connection_executor = "None"
    /\ ~command_executor.configured
    /\ op.name = "migrate_up_to"
    /\ op.err = "ok"
    /\ db.rev = 2

\* the value the current property had when the operation started
CurrentBefore ==
    IF CurrentOutput(op.pre) = <<>> THEN BASE ELSE strip(CurrentOutput(op.pre)[1])

\* revision_range(current, destination) as of the start of the operation: its
\* elements, none when the range query raises
RangeBefore ==
    IF RevIndex(CurrentBefore) < 0 \/ RevIndex(op.arg) < 0 THEN <<>>
    ELSE Between(RevIndex(CurrentBefore), RevIndex(op.arg))

\* C19: managed_upgrade(destination) reads current once and the history once,
\* before anything else, and then issues the "upgrade" commands of
\* revision_range(current, destination) in ascending order, one per element and
\* each targeting that element: all of them when it returns, an initial part of
\* them when a step raises. It seeds only revisions of that range; when current
\* is the destination it issues no "upgrade" and no insert.
C19_OneUpgradePerRangeElement ==
    op.name = "migrate_up_to" =>
        /\ Len(op.calls) >= 2
        /\ op.calls[1].cmd = "current"
        /\ op.calls[2].cmd = "history"
        /\ Len(Cmds("current")) = 1
        /\ Len(Cmds("history")) = 1
        /\ Cmds("heads") = <<>>
        /\ Cmds("downgrade") = <<>>
        /\ IsPrefix(Targeted("upgrade"), RangeBefore)
        /\ op.err = "ok" => Targeted("upgrade") = RangeBefore
        /\ \A k \in 1..Len(Cmds("insert")) :
               \E j \in 1..Len(RangeBefore) : Cmds("insert")[k].arg = RangeBefore[j]
        /\ CurrentBefore = op.arg => Cmds("upgrade") = <<>> /\ Cmds("insert") = <<>>

\* from R1, managed_upgrade(R2) issued the single upgrade of the range
C19_Witness ==
    /\ op.name = "migrate_up_to"
    /\ op.arg = RevId(2)
    /\ op.err = "ok"
    /\ op.pre.rev = 1
    /\ CurrentBefore = RevId(1)
    /\ Targeted("upgrade") = <<RevId(2)>>
    /\ db.rev = 2

\* the places of the range walked that have seed data registered
SeededInRange == {k \in 1..Len(RangeBefore) : Seeded(RangeBefore[k])}

\* the first of them
FirstSeeded == CHOOSE k \in SeededInRange : \A j \in SeededInRange : k <= j

\* C20: without a connection executor, managed_upgrade over a range holding a
\* revision R with seed data raises and inserts nothing, and issues no
\* "upgrade" to R or to a later revision; when it is the seeding of R that
\* raises, the upgrades to the revisions of the range before R have all been
\* issued and stay applied, so the database is left on the revision just
\* before R, its rows untouched.
C20_UnconnectedSeedStopsBeforeR ==
    (op.name = "migrate_up_to" /\ connection_executor = "None" /\ SeededInRange # {}) =>
        /\ op.err \in {"AttributeError", "CommandError"}
        /\ Cmds("insert") = <<>>
        /\ IsPrefix(Targeted("upgrade"), SubSeq(RangeBefore, 1, FirstSeeded - 1))
        /\ db.rows = op.pre.rows
        /\ op.err = "AttributeError" =>
               /\ Targeted("upgrade") = SubSeq(RangeBefore, 1, FirstSeeded - 1)
               /\ db.rev = op.pre.rev + FirstSeeded - 1
               /\ RevId(db.rev + 1) = RangeBefore[FirstSeeded]

\* without an engine, from base towards R2 with seed data registered for R2:
\* the upgrade to R1 was issued, the seeding of R2 raised, the database is on R1
C20_Witness ==
    /\ op.name = "migrate_up_to"
    /\ connection_executor = "None"
    /\ op.arg = RevId(2)
    /\ Seeded(RevId(2))
    /\ ~Seeded(RevId(1))
    /\ op.pre.rev = 0
    /\ op.err = "AttributeError"
    /\ Targeted("upgrade") = <<RevId(1)>>
    /\ db.rev = 1

====
